---- MODULE Spec2Model ----
(***************************************************************************)
(* Proxmox backup checker: the per-target validation pipeline of           *)
(* BackupChecker.run_all_checks (src/src/backup_checker.py) and the        *)
(* notification entry NotificationManager.send_notifications               *)
(* (src/src/notification_manager.py).                                      *)
(*                                                                         *)
(* Text is modelled as a sequence of tokens: an f-string is the            *)
(* concatenation of its literal parts and the values it interpolates, and  *)
(* '; '.join is the interleaving of the entries with the separator.        *)
(*                                                                         *)
(* A Python dict key that may be missing is an option: <<>> when the key   *)
(* is absent, <<v>> when it is present with value v.                       *)
(***************************************************************************)
EXTENDS Naturals, Sequences, FiniteSets

\* ------------------------------------------------------------------ bounds

\* Longest list of configured backup targets explored.
MaxTargets == 2

\* ------------------------------------------------------ values of the model

\* Names and directories a configured target may carry.
Names == {"vm-101", "vm-102"}
Dirs == {"/mnt/a", "/mnt/b"}

\* BackupCheckConfig: the fields run_all_checks reads to build a result.
Targets == [name : Names, backup_dir : Dirs, days : {"7"}, min_size : {"5 GB"}]

\* The two invocations of run_all_checks that are compared with each other.
Runs == {1, 2}

\* What python_utils.is_directory_accessible can do: return True, return
\* False, or raise.
AccessExt == {"true", "false", "raise"}

\* What the python_utils calls of check_free_space can do together:
\* check_minimum_free_space reports enough space or too little, or one of
\* parse_size_to_bytes / check_minimum_free_space / get_disk_usage raises.
SpaceExt == {"enough", "low", "raise"}

\* What the python_utils calls of check_backup_freshness can do together:
\* recent files of sufficient total size, no recent file, recent files
\* below the minimum size, or get_files_modified_within_days /
\* get_min_size_bytes raises.
FreshExt == {"fresh", "none", "small", "raise"}

\* The text of a caught exception, str(e).
ExcText == "OSError"

None == <<>>
Some(x) == <<x>>

\* ------------------------------------------------------------------- state

VARIABLES
    configs,       \* backup_configs: the list handed to run_all_checks
    pc,            \* per run: position inside run_all_checks
    idx,           \* per run: 1-based position of the for loop
    result,        \* per run: the result dict of the target being checked
    results,       \* per run: the results list
    calls,         \* per run: probe invocations so far, with what they met
    summary,       \* per run: the counts logged before returning
    diff,          \* the target whose probe outcomes the second run may vary
    notifyPc,      \* position of a caller using NotificationManager
    routerSummary, \* option: the counts send_notifications logged
    emailSent,     \* outcomes of the email_notifier.send_email invocations
    pushSent,      \* outcomes of the pushover_notifier.send invocations
    emailContent,  \* option: [subject, details, failed_summary] built by
                   \* _create_email_content
    pushAlert,     \* option: [title, message, failed_count] built by
                   \* _send_pushover_alerts
    notifyReturn,  \* option: the value send_notifications returned
    mainPc,        \* position of the process started as "python main.py"
    fatal,         \* option: the exception that ended that process
    crashAlerts,   \* number of send_critical_backup_alert invocations
    exitCode,      \* option: the status the process exited with
    fsFree,        \* free space of the filesystem under backup_dir, now
    minFreeSpace,  \* the min_free_space string check_free_space is given
    spPc,          \* position of a check_free_space invocation
    spLocal,       \* its locals: [min_bytes, has_space, message]
    spReturn,      \* option: the tuple check_free_space returned
    dirFiles,      \* the entries under backup_dir, in listing order
    minSizeBytes,  \* option: what backup_config.get_min_size_bytes()
                   \* gives, no value where it raises
    frPc,          \* position of a check_backup_freshness invocation
    frListing,     \* option: [raised, files], what the listing call gave
    frReturn       \* option: the tuple check_backup_freshness returned

vars == <<configs, pc, idx, result, results, calls, summary, diff,
          notifyPc, routerSummary, emailSent, pushSent, emailContent,
          pushAlert, notifyReturn, mainPc, fatal, crashAlerts, exitCode,
          fsFree, minFreeSpace, spPc, spLocal, spReturn,
          dirFiles, minSizeBytes, frPc, frListing, frReturn>>

runVars == <<pc, idx, result, results, calls, summary>>
notifyVars == <<notifyPc, routerSummary, emailSent, pushSent, emailContent,
                pushAlert, notifyReturn>>
mainVars == <<mainPc, fatal, crashAlerts, exitCode>>
spaceVars == <<fsFree, minFreeSpace, spPc, spLocal, spReturn>>
freshVars == <<dirFiles, minSizeBytes, frPc, frListing, frReturn>>

\* ----------------------------------------------------------------- helpers

Range(s) == {s[i] : i \in 1..Len(s)}

\* '; '.join(parts): the parts in order, with the separator between them.
RECURSIVE Join(_)
Join(parts) ==
    IF Len(parts) = 0 THEN <<>>
    ELSE IF Len(parts) = 1 THEN parts[1]
    ELSE parts[1] \o <<"; ">> \o Join(Tail(parts))

\* sum(1 for r in results if r['success'])
RECURSIVE CountSuccess(_)
CountSuccess(rs) ==
    IF Len(rs) = 0 THEN 0
    ELSE (IF rs[1].success THEN 1 ELSE 0) + CountSuccess(Tail(rs))

\* ------------------------------------------------------------------ probes
\* A probe's outcome as its caller sees it: raised = TRUE when an exception
\* leaves the probe, otherwise the returned tuple.

check_directory_accessibility(backup_dir, ext) ==
    IF ext = "true"
    THEN [raised |-> FALSE, ok |-> TRUE, msg |-> <<>>]
    ELSE IF ext = "false"
    THEN [raised |-> FALSE, ok |-> FALSE,
          msg |-> <<"Directory not accessible or not mounted: ", backup_dir>>]
    ELSE \* except Exception as e
         [raised |-> FALSE, ok |-> FALSE,
          msg |-> <<"Error checking directory accessibility ", backup_dir,
                    ": ", ExcText>>]

\* check_free_space with its try/except removed: the exception propagates.
check_free_space_uncaught(backup_dir, ext) ==
    IF ext = "enough"
    THEN [raised |-> FALSE, ok |-> TRUE, msg |-> <<>>, info |-> "space_info"]
    ELSE IF ext = "low"
    THEN [raised |-> FALSE, ok |-> FALSE,
          msg |-> <<"check_minimum_free_space message">>,
          info |-> "space_info"]
    ELSE [raised |-> TRUE, ok |-> FALSE, msg |-> <<>>, info |-> "empty"]

check_free_space(backup_dir, ext) ==
    IF ext = "enough"
    THEN [raised |-> FALSE, ok |-> TRUE, msg |-> <<>>, info |-> "space_info"]
    ELSE IF ext = "low"
    THEN [raised |-> FALSE, ok |-> FALSE,
          msg |-> <<"check_minimum_free_space message">>,
          info |-> "space_info"]
    ELSE \* except Exception as e: the space_info returned is {}
         [raised |-> FALSE, ok |-> FALSE,
          msg |-> <<"Error checking free space for ", backup_dir, ": ",
                    ExcText>>,
          info |-> "empty"]

check_backup_freshness(backup_config, ext) ==
    IF ext = "fresh"
    THEN [raised |-> FALSE, ok |-> TRUE, msg |-> <<>>, info |-> "backup_info"]
    ELSE IF ext = "none"
    THEN [raised |-> FALSE, ok |-> FALSE,
          msg |-> <<"No files found modified within ", backup_config.days,
                    " days in ", backup_config.backup_dir>>,
          info |-> "backup_info_zero"]
    ELSE IF ext = "small"
    THEN [raised |-> FALSE, ok |-> FALSE,
          msg |-> <<"Backup size ", "total_size_human", " is below ",
                    "minimum requirement ", backup_config.min_size>>,
          info |-> "backup_info"]
    ELSE \* except Exception as e: the backup_info returned is {}
         [raised |-> FALSE, ok |-> FALSE,
          msg |-> <<"Error checking backup freshness for ",
                    backup_config.backup_dir, ": ", ExcText>>,
          info |-> "empty"]

\* ------------------------------------------- run_all_checks: the loop body

\* The result dict created at the top of each iteration.
NewResult(backup_config) ==
    [name |-> backup_config.name,
     backup_dir |-> backup_config.backup_dir,
     success |-> TRUE,
     errors |-> <<>>,
     warnings |-> <<>>,
     info |-> [space |-> None, backup |-> None],
     error |-> None]

\* Step 1 without result['error'] = access_error.
RecordAccessFailureNoSummary(res, access_error) ==
    [res EXCEPT !.success = FALSE,
                !.errors = Append(@, <<"Directory not accessible: ">>
                                      \o access_error)]

\* Step 1, not accessible.
RecordAccessFailure(res, access_error) ==
    [res EXCEPT !.success = FALSE,
                !.errors = Append(@, <<"Directory not accessible: ">>
                                      \o access_error),
                !.error = Some(access_error)]

\* Step 2 with the error of an insufficient-space outcome not appended.
RecordSpaceNoError(res, ret) ==
    [res EXCEPT !.success = (@ /\ ret.ok),
                !.info.space = Some(ret.info)]

\* Step 2: the outcome of check_free_space recorded in the result.
RecordSpace(res, ret) ==
    LET marked == IF ~ret.ok
                  THEN [res EXCEPT !.success = FALSE,
                                   !.errors = Append(@,
                                       <<"Insufficient free space: ">>
                                       \o ret.msg)]
                  ELSE res
    IN  [marked EXCEPT !.info.space = Some(ret.info)]

\* Step 3: the outcome of check_backup_freshness recorded in the result.
RecordFreshness(res, ret) ==
    LET marked == IF ~ret.ok
                  THEN [res EXCEPT !.success = FALSE,
                                   !.errors = Append(@,
                                       <<"Backup validation failed: ">>
                                       \o ret.msg)]
                  ELSE res
    IN  [marked EXCEPT !.info.backup = Some(ret.info)]

\* The overall error message taken from the first error only.
SetOverallErrorFirstOnly(res) ==
    IF ~res.success THEN [res EXCEPT !.error = Some(res.errors[1])]
    ELSE res

\* "Set overall error message if any checks failed".
SetOverallError(res) ==
    IF ~res.success THEN [res EXCEPT !.error = Some(Join(res.errors))]
    ELSE res

\* Step 1 falling through to step 2 whatever the probe said.
AfterAccessFallThrough(accessible) == "space"

\* Where step 1 leaves the loop body: on to step 2, or (continue) back to
\* the loop head.
AfterAccess(accessible) == IF accessible THEN "space" ELSE "loop"

\* Step 2 skipping step 3 when the space check failed.
AfterSpaceShortCircuit(has_space) == IF has_space THEN "fresh" ELSE "finish"

\* Where step 2 leaves the loop body: always on to step 3.
AfterSpace(has_space) == "fresh"

\* results.insert(0, result)
PrependResult(rs, res) == <<res>> \o rs

\* results.append(result)
AppendResult(rs, res) == Append(rs, res)

\* break: the loop is left for good.
BreakLoop(i, n) == n + 1

\* The same target is taken up again after a failure.
RetryLoop(i, n) == i

\* continue: the loop moves to the next target.
ContinueLoop(i, n) == i + 1

\* --------------------------------------------------------------- the runs

\* What the environment may answer to run r probing target k: the second
\* run meets, on every target but diff, what the first run met there.
ExtFor(r, k, probe, all) ==
    LET met == {c.ext : c \in {d \in Range(calls[1]) :
                                 d.target = k /\ d.probe = probe}}
    IN  IF r = 2 /\ k # diff /\ met # {} THEN met ELSE all

Called(r, k, probe, ext) ==
    Append(calls[r], [target |-> k, probe |-> probe, ext |-> ext])

\* The state before run_all_checks is called on a list of targets.
Idle ==
    /\ pc = [r \in Runs |-> "idle"]
    /\ idx = [r \in Runs |-> 0]
    /\ result = [r \in Runs |-> None]
    /\ results = [r \in Runs |-> <<>>]
    /\ calls = [r \in Runs |-> <<>>]
    /\ summary = [r \in Runs |-> None]
    /\ diff = 0
    /\ notifyPc = "idle"
    /\ routerSummary = None
    /\ emailSent = <<>>
    /\ pushSent = <<>>
    /\ emailContent = None
    /\ pushAlert = None
    /\ mainPc = "idle"
    /\ fatal = None
    /\ crashAlerts = 0
    /\ exitCode = None
    /\ notifyReturn = None

\* No check_free_space invocation is under way.
SpaceIdle ==
    /\ fsFree = 0
    /\ minFreeSpace = "1 GB"
    /\ spPc = "idle"
    /\ spLocal = None
    /\ spReturn = None

\* No check_backup_freshness invocation is under way.
FreshIdle ==
    /\ dirFiles = <<>>
    /\ minSizeBytes = Some(0)
    /\ frPc = "idle"
    /\ frListing = None
    /\ frReturn = None

Init ==
    /\ configs \in UNION {[1..n -> Targets] : n \in 0..MaxTargets}
    /\ Idle
    /\ SpaceIdle
    /\ FreshIdle

\* The k-th target of the lists the two compared invocations run over.
PairTarget(k) ==
    [name |-> IF k % 2 = 1 THEN "vm-101" ELSE "vm-102",
     backup_dir |-> IF k % 2 = 1 THEN "/mnt/a" ELSE "/mnt/b",
     days |-> "7", min_size |-> "5 GB"]

InitPair ==
    /\ configs \in {[k \in 1..n |-> PairTarget(k)] : n \in 0..MaxTargets}
    /\ Idle
    /\ SpaceIdle
    /\ FreshIdle

\* run_all_checks is entered: results = [].
run_all_checks(r) ==
    /\ r = 1
    /\ pc[r] = "idle"
    /\ pc' = [pc EXCEPT ![r] = "loop"]
    /\ idx' = [idx EXCEPT ![r] = 1]
    /\ results' = [results EXCEPT ![r] = <<>>]
    /\ UNCHANGED <<configs, result, calls, summary, diff, notifyVars,
                 mainVars, spaceVars, freshVars>>

\* A second invocation over the same list, once the first has returned; its
\* probes may meet something else on target diff only.
run_all_checks_again(r) ==
    /\ r = 2
    /\ pc[1] = "done"
    /\ pc[r] = "idle"
    /\ \E d \in 1..Len(configs) : diff' = d
    /\ pc' = [pc EXCEPT ![r] = "loop"]
    /\ idx' = [idx EXCEPT ![r] = 1]
    /\ results' = [results EXCEPT ![r] = <<>>]
    /\ UNCHANGED <<configs, result, calls, summary, notifyVars,
                 mainVars, spaceVars, freshVars>>

\* The head of the for loop: the next target's result dict is created, or
\* the loop is over, the counts are logged and results is returned.
LoopHead(r) ==
    /\ pc[r] = "loop"
    /\ IF idx[r] <= Len(configs)
       THEN /\ result' = [result EXCEPT ![r] = Some(NewResult(configs[idx[r]]))]
            /\ pc' = [pc EXCEPT ![r] = "access"]
            /\ UNCHANGED summary
       ELSE /\ LET successful == CountSuccess(results[r])
                   failed == Len(results[r]) - successful
               IN  summary' = [summary EXCEPT ![r] =
                                  Some([successful |-> successful,
                                        failed |-> failed])]
            /\ pc' = [pc EXCEPT ![r] = "done"]
            /\ UNCHANGED result
    /\ UNCHANGED <<configs, idx, results, calls, diff, notifyVars,
                 mainVars, spaceVars, freshVars>>

\* Step 1: check directory accessibility.
StepAccess(r) ==
    /\ pc[r] = "access"
    /\ \E ext \in ExtFor(r, idx[r], "access", AccessExt) :
         LET cfg == configs[idx[r]]
             ret == check_directory_accessibility(cfg.backup_dir, ext)
             failedResult == RecordAccessFailure(result[r][1], ret.msg)
         IN  /\ calls' = [calls EXCEPT ![r] = Called(r, idx[r], "access", ext)]
             /\ IF ret.raised
                THEN /\ pc' = [pc EXCEPT ![r] = "raised"]
                     /\ UNCHANGED <<result, results, idx>>
                ELSE /\ pc' = [pc EXCEPT ![r] = AfterAccess(ret.ok)]
                     /\ IF ~ret.ok
                        THEN /\ result' = [result EXCEPT ![r] = Some(failedResult)]
                             /\ results' = [results EXCEPT ![r] =
                                              AppendResult(@, failedResult)]
                             /\ idx' = [idx EXCEPT ![r] =
                                          IF AfterAccess(ret.ok) = "loop"
                                          THEN ContinueLoop(@, Len(configs))
                                          ELSE @]
                        ELSE UNCHANGED <<result, results, idx>>
    /\ UNCHANGED <<configs, summary, diff, notifyVars,
                 mainVars, spaceVars, freshVars>>

\* Step 2: check free space.
StepSpace(r) ==
    /\ pc[r] = "space"
    /\ \E ext \in ExtFor(r, idx[r], "space", SpaceExt) :
         LET cfg == configs[idx[r]]
             ret == check_free_space(cfg.backup_dir, ext)
         IN  /\ calls' = [calls EXCEPT ![r] = Called(r, idx[r], "space", ext)]
             /\ IF ret.raised
                THEN /\ pc' = [pc EXCEPT ![r] = "raised"]
                     /\ UNCHANGED result
                ELSE /\ pc' = [pc EXCEPT ![r] = AfterSpace(ret.ok)]
                     /\ result' = [result EXCEPT ![r] =
                                     Some(RecordSpace(@[1], ret))]
    /\ UNCHANGED <<configs, idx, results, summary, diff, notifyVars,
                 mainVars, spaceVars, freshVars>>

\* Step 3: check backup freshness and size.
StepFreshness(r) ==
    /\ pc[r] = "fresh"
    /\ \E ext \in ExtFor(r, idx[r], "fresh", FreshExt) :
         LET cfg == configs[idx[r]]
             ret == check_backup_freshness(cfg, ext)
         IN  /\ calls' = [calls EXCEPT ![r] = Called(r, idx[r], "fresh", ext)]
             /\ IF ret.raised
                THEN /\ pc' = [pc EXCEPT ![r] = "raised"]
                     /\ UNCHANGED result
                ELSE /\ pc' = [pc EXCEPT ![r] = "finish"]
                     /\ result' = [result EXCEPT ![r] =
                                     Some(RecordFreshness(@[1], ret))]
    /\ UNCHANGED <<configs, idx, results, summary, diff, notifyVars,
                 mainVars, spaceVars, freshVars>>

\* The end of the loop body: the overall error message is set and the
\* result is appended.
FinishTarget(r) ==
    /\ pc[r] = "finish"
    /\ LET final == SetOverallError(result[r][1])
       IN  /\ result' = [result EXCEPT ![r] = Some(final)]
           /\ results' = [results EXCEPT ![r] = AppendResult(@, final)]
    /\ idx' = [idx EXCEPT ![r] = @ + 1]
    /\ pc' = [pc EXCEPT ![r] = "loop"]
    /\ UNCHANGED <<configs, calls, summary, diff, notifyVars,
                 mainVars, spaceVars, freshVars>>

RunStep(r) ==
    \/ LoopHead(r)
    \/ StepAccess(r)
    \/ StepSpace(r)
    \/ StepFreshness(r)
    \/ FinishTarget(r)

\* ---------------------------------------------------------- notifications

\* A caller hands the returned results to
\* NotificationManager.send_notifications. The module that defines the
\* class does not compile: the else: of send_notifications is followed by
\* comments only, and Python rejects the file with "IndentationError:
\* expected an indented block after 'else' statement". The caller's import
\* raises, no NotificationManager exists, and no line of send_notifications
\* runs: no send is attempted and nothing is returned.
send_notifications ==
    /\ pc[1] = "done"
    /\ notifyPc = "idle"
    /\ notifyPc' = "IndentationError"
    /\ UNCHANGED <<routerSummary, emailSent, pushSent, emailContent,
                   pushAlert, notifyReturn>>
    /\ UNCHANGED <<configs, runVars, diff, mainVars, spaceVars,
                   freshVars>>

\* ------------------------------------------------------------- the script

\* "python main.py" on the host whose probes gave results[1]. The imports
\* of lines 20-30 run before main() is entered and outside its try; the
\* import of src.notification_manager at line 30 raises the
\* IndentationError of that module, nothing catches it, and the
\* interpreter ends the process with status 1. No line of main() runs: no
\* configuration is read, no check is made, send_critical_backup_alert of
\* lines 148-154 is not reached.
main_script ==
    /\ pc[1] = "done"
    /\ mainPc = "idle"
    /\ mainPc' = "exited"
    /\ fatal' = Some("IndentationError")
    /\ exitCode' = Some(1)
    /\ UNCHANGED crashAlerts
    /\ UNCHANGED <<configs, runVars, diff, notifyVars, spaceVars,
                   freshVars>>

\* ------------------------------------------------- the free-space probe

\* Sizes are counted in units of one GB.
MaxBytes == 3

\* The capacity of the filesystem under backup_dir.
TotalBytes == MaxBytes

\* The min_free_space strings a configuration may carry.
SizeStrings == {"1 GB", "2 GB", "3 GB", "lots"}

\* parse_size_to_bytes: the byte count of a size string, or no value where
\* it raises on a string that is no size.
parse_size_to_bytes(size_str) ==
    IF size_str = "1 GB" THEN Some(1)
    ELSE IF size_str = "2 GB" THEN Some(2)
    ELSE IF size_str = "3 GB" THEN Some(3)
    ELSE None

\* check_minimum_free_space(path, min_bytes) on a filesystem with free
\* bytes free: sufficient if and only if free >= minimum.
check_minimum_free_space(free, min_bytes) ==
    [has_space |-> free >= min_bytes,
     message |-> IF free >= min_bytes THEN <<>>
                 ELSE <<"check_minimum_free_space message">>]

\* get_disk_usage(path): (total, used, free) of the filesystem as it is
\* when the call is made.
get_disk_usage(free) ==
    [total |-> TotalBytes, used |-> TotalBytes - free, free |-> free]

\* The except branch of check_free_space: (False, error_msg, {}).
SpaceError ==
    [has_sufficient_space |-> FALSE,
     message |-> <<"Error checking free space for ", "/mnt/a", ": ",
                   ExcText>>,
     space_info |-> None]

InitSpace ==
    /\ configs = <<>>
    /\ Idle
    /\ FreshIdle
    /\ fsFree \in 0..MaxBytes
    /\ minFreeSpace \in SizeStrings
    /\ spPc = "idle"
    /\ spLocal = None
    /\ spReturn = None

\* check_free_space(backup_dir, min_free_space) is entered.
check_free_space_call ==
    /\ spPc = "idle"
    /\ spPc' = "parse_size_to_bytes"
    /\ UNCHANGED <<fsFree, minFreeSpace, spLocal, spReturn>>
    /\ UNCHANGED <<configs, runVars, diff, notifyVars, mainVars, freshVars>>

\* Line 88: min_bytes = parse_size_to_bytes(min_free_space).
SpaceParse ==
    /\ spPc = "parse_size_to_bytes"
    /\ IF parse_size_to_bytes(minFreeSpace) = None
       THEN /\ spPc' = "returned"
            /\ spReturn' = Some(SpaceError)
            /\ UNCHANGED spLocal
       ELSE /\ spPc' = "check_minimum_free_space"
            /\ spLocal' = Some([min_bytes |->
                                    parse_size_to_bytes(minFreeSpace)[1],
                                has_space |-> FALSE,
                                message |-> <<>>])
            /\ UNCHANGED spReturn
    /\ UNCHANGED <<fsFree, minFreeSpace>>
    /\ UNCHANGED <<configs, runVars, diff, notifyVars, mainVars, freshVars>>

\* Line 91: has_space, message = check_minimum_free_space(backup_dir,
\* min_bytes), which reads the filesystem, or raises.
SpaceCheckMinimum ==
    /\ spPc = "check_minimum_free_space"
    /\ \E raises \in BOOLEAN :
          IF raises
          THEN /\ spPc' = "returned"
               /\ spReturn' = Some(SpaceError)
               /\ UNCHANGED spLocal
          ELSE LET r == check_minimum_free_space(fsFree,
                                                 spLocal[1].min_bytes)
               IN  /\ spPc' = "get_disk_usage"
                   /\ spLocal' = Some([spLocal[1] EXCEPT
                                          !.has_space = r.has_space,
                                          !.message = r.message])
                   /\ UNCHANGED spReturn
    /\ UNCHANGED <<fsFree, minFreeSpace>>
    /\ UNCHANGED <<configs, runVars, diff, notifyVars, mainVars, freshVars>>

\* Another process writes to or deletes from the filesystem between the
\* probe's two reads of it.
filesystem_changes ==
    /\ spPc = "get_disk_usage"
    /\ \E free \in 0..MaxBytes :
          /\ free # fsFree
          /\ fsFree' = free
    /\ UNCHANGED <<minFreeSpace, spPc, spLocal, spReturn>>
    /\ UNCHANGED <<configs, runVars, diff, notifyVars, mainVars, freshVars>>

\* Lines 94-112: total, used, free = get_disk_usage(backup_dir), a second
\* read of the filesystem, or raises; space_info is built from it and
\* returned with the has_space of line 91.
SpaceGetDiskUsage ==
    /\ spPc = "get_disk_usage"
    /\ \E raises \in BOOLEAN :
          IF raises
          THEN spReturn' = Some(SpaceError)
          ELSE LET u == get_disk_usage(fsFree)
               IN  spReturn' =
                     Some([has_sufficient_space |-> spLocal[1].has_space,
                           message |-> spLocal[1].message,
                           space_info |->
                               Some([total_bytes |-> u.total,
                                     used_bytes |-> u.used,
                                     free_bytes |-> u.free,
                                     min_required |->
                                         spLocal[1].min_bytes])])
    /\ spPc' = "returned"
    /\ UNCHANGED <<fsFree, minFreeSpace, spLocal>>
    /\ UNCHANGED <<configs, runVars, diff, notifyVars, mainVars, freshVars>>

\* -------------------------------------------------- the freshness probe

MaxFiles == 6

\* file_details[:5], "Keep only 5 most recent for reporting".
ReportLimit == 5

\* Modification times are counted in days; a file is within the window of
\* backup_config.days if its time is not before WindowStart.
WindowStart == 1

\* The target whose directory is probed.
FreshTarget == PairTarget(1)

\* What an entry under backup_dir can be: a direct file from before the
\* window, a file of a subdirectory, and direct files within the window.
FileKinds ==
    {[modified_time |-> 0, size_bytes |-> 2, nested |-> FALSE],
     [modified_time |-> 2, size_bytes |-> 2, nested |-> TRUE],
     [modified_time |-> 1, size_bytes |-> 1, nested |-> FALSE],
     [modified_time |-> 2, size_bytes |-> 2, nested |-> FALSE]}

\* The i-th entry of a listing, of kind k.
DirEntry(i, k) ==
    [path |-> i, size_bytes |-> k.size_bytes,
     modified_time |-> k.modified_time, nested |-> k.nested]

\* get_files_modified_within_days(directory, days, include_subdirs=False):
\* the direct files modified within the window, as (path, size, time).
get_files_modified_within_days(entries) ==
    LET Recent(f) == ~f.nested /\ f.modified_time >= WindowStart
        Tuple(f) == [path |-> f.path, size_bytes |-> f.size_bytes,
                     modified_time |-> f.modified_time]
        picked == SelectSeq(entries, Recent)
    IN  [i \in 1..Len(picked) |-> Tuple(picked[i])]

\* Lines 154-165: total_size += file_size over recent_files.
RECURSIVE TotalSize(_)
TotalSize(files) ==
    IF Len(files) = 0 THEN 0
    ELSE files[1].size_bytes + TotalSize(Tail(files))

\* A file put into a list ordered by ascending time, after its equals.
RECURSIVE InsertAscending(_, _)
InsertAscending(sorted, f) ==
    IF Len(sorted) = 0 THEN <<f>>
    ELSE IF sorted[1].modified_time > f.modified_time
         THEN <<f>> \o sorted
         ELSE <<sorted[1]>> \o InsertAscending(Tail(sorted), f)

\* The list ordered by ascending modification time.
RECURSIVE SortAscending(_)
SortAscending(files) ==
    IF Len(files) = 0 THEN <<>>
    ELSE InsertAscending(SortAscending(SubSeq(files, 1, Len(files) - 1)),
                         files[Len(files)])

\* A file put into a list ordered by descending time, after its equals.
RECURSIVE InsertDescending(_, _)
InsertDescending(sorted, f) ==
    IF Len(sorted) = 0 THEN <<f>>
    ELSE IF sorted[1].modified_time < f.modified_time
         THEN <<f>> \o sorted
         ELSE <<sorted[1]>> \o InsertDescending(Tail(sorted), f)

\* Line 168: file_details.sort(key=modified_time, reverse=True), a stable
\* sort: files of equal time keep their listing order.
RECURSIVE SortDescending(_)
SortDescending(files) ==
    IF Len(files) = 0 THEN <<>>
    ELSE InsertDescending(SortDescending(SubSeq(files, 1, Len(files) - 1)),
                          files[Len(files)])

\* file_details[:5].
FirstFive(files) ==
    SubSeq(files, 1, IF Len(files) < ReportLimit THEN Len(files)
                     ELSE ReportLimit)

\* A total equal to the minimum counted as too small.
SizeAtOrBelowMinimum(total_size, min_size_bytes) ==
    total_size <= min_size_bytes

\* Line 183: total_size < min_size_bytes.
SizeBelowMinimum(total_size, min_size_bytes) == total_size < min_size_bytes

\* Lines 140-151: no file within the window.
NoRecentFiles(backup_config) ==
    [is_valid |-> FALSE,
     message |-> <<"No files found modified within ", backup_config.days,
                   " days in ", backup_config.backup_dir>>,
     backup_info |-> Some([file_count |-> 0,
                           total_size_bytes |-> 0,
                           files |-> None,
                           oldest_file |-> None,
                           newest_file |-> None,
                           min_required_human |-> backup_config.min_size])]

\* Lines 153-191: the BackupInfo of the recent files and the size check.
RecentFiles(backup_config, recent_files, min_size_bytes) ==
    LET total_size == TotalSize(recent_files)
        file_details == SortDescending(recent_files)
        backup_info ==
            [file_count |-> Len(file_details),
             total_size_bytes |-> total_size,
             files |-> Some(FirstFive(file_details)),
             oldest_file |-> Some(file_details[Len(file_details)]),
             newest_file |-> Some(file_details[1]),
             min_required_human |-> backup_config.min_size]
    IN  IF SizeBelowMinimum(total_size, min_size_bytes)
        THEN [is_valid |-> FALSE,
              message |-> <<"Backup size ", "total_size_human",
                            " is below ", "minimum requirement ",
                            backup_config.min_size>>,
              backup_info |-> Some(backup_info)]
        ELSE [is_valid |-> TRUE, message |-> <<>>,
              backup_info |-> Some(backup_info)]

\* Lines 193-196: the except branch, (False, error_msg, {}).
FreshnessError(backup_config) ==
    [is_valid |-> FALSE,
     message |-> <<"Error checking backup freshness for ",
                   backup_config.backup_dir, ": ", ExcText>>,
     backup_info |-> None]

InitFresh ==
    /\ configs = <<>>
    /\ Idle
    /\ SpaceIdle
    /\ dirFiles \in UNION {
          {[i \in 1..n |-> DirEntry(i, kinds[i])] :
              kinds \in [1..n -> FileKinds]} : n \in 0..MaxFiles}
    /\ minSizeBytes \in {None, Some(0), Some(3)}
    /\ frPc = "idle"
    /\ frListing = None
    /\ frReturn = None

\* Line 138: recent_files = get_files_modified_within_days(...), or the
\* call raises.
FreshList ==
    /\ frPc = "idle"
    /\ \E raises \in BOOLEAN :
          frListing' =
              Some([raised |-> raises,
                    files |-> IF raises THEN <<>>
                              ELSE get_files_modified_within_days(dirFiles)])
    /\ frPc' = "listed"
    /\ UNCHANGED <<dirFiles, minSizeBytes, frReturn>>
    /\ UNCHANGED <<configs, runVars, diff, notifyVars, mainVars, spaceVars>>

\* An exception was raised inside the try block of lines 135-191: by the
\* listing of line 138, or by get_min_size_bytes of line 181, which is
\* reached when the listing gave files.
FreshRaised ==
    \/ frListing[1].raised
    \/ (frListing[1].files # <<>> /\ minSizeBytes = None)

\* Lines 140-196: the rest of check_backup_freshness, up to its return.
FreshEvaluate ==
    /\ frPc = "listed"
    /\ frReturn' =
          Some(IF FreshRaised THEN FreshnessError(FreshTarget)
               ELSE IF frListing[1].files = <<>>
                    THEN NoRecentFiles(FreshTarget)
                    ELSE RecentFiles(FreshTarget, frListing[1].files,
                                     minSizeBytes[1]))
    /\ frPc' = "returned"
    /\ UNCHANGED <<dirFiles, minSizeBytes, frListing>>
    /\ UNCHANGED <<configs, runVars, diff, notifyVars, mainVars, spaceVars>>

\* --------------------------------------------------------- specifications

Next ==
    \/ run_all_checks(1)
    \/ RunStep(1)
    \/ send_notifications
    \/ main_script

Spec == Init /\ [][Next]_vars

\* Two invocations of run_all_checks over one list, for the comparison of
\* their results.
NextPair ==
    \/ run_all_checks(1)
    \/ run_all_checks_again(2)
    \/ \E r \in Runs : RunStep(r)

SpecPair == InitPair /\ [][NextPair]_vars

\* One invocation of check_free_space on a filesystem in use.
NextSpace ==
    \/ check_free_space_call
    \/ SpaceParse
    \/ SpaceCheckMinimum
    \/ filesystem_changes
    \/ SpaceGetDiskUsage

SpecSpace == InitSpace /\ [][NextSpace]_vars

\* One invocation of check_backup_freshness on a directory.
NextFresh ==
    \/ FreshList
    \/ FreshEvaluate

SpecFresh == InitFresh /\ [][NextFresh]_vars

\* ------------------------------------------------------------------ claims

\* The probe invocations of run r on target k.
CallsOn(r, k) == {c \in Range(calls[r]) : c.target = k}

\* Run r probed target k for accessibility and the probe did not pass.
AccessFailedAt(r, k) ==
    \E c \in CallsOn(r, k) : c.probe = "access" /\ c.ext # "true"

\* Run r probed target k for accessibility and the probe passed.
AccessPassedAt(r, k) ==
    \E c \in CallsOn(r, k) : c.probe = "access" /\ c.ext = "true"

\* C1: in every result record of run_all_checks, success is true if and
\* only if the record's error list is empty, whatever the probes met.
C1_SuccessIffNoErrors ==
    \A i \in 1..Len(results[1]) :
        results[1][i].success <=> (results[1][i].errors = <<>>)

\* C1 witness: a returned list holding a passed record and a record that
\* failed with errors from the space and the freshness probe.
C1_Witness ==
    /\ pc[1] = "done"
    /\ \E i \in 1..Len(results[1]) :
          results[1][i].success /\ results[1][i].errors = <<>>
    /\ \E i \in 1..Len(results[1]) :
          ~results[1][i].success /\ Len(results[1][i].errors) = 2

\* C2: when the accessibility probe fails for a target, the space and the
\* freshness probe are not invoked for it, its result has no space and no
\* backup information, and its error list holds the accessibility error
\* only.
C2_AccessFailureSkipsProbes ==
    \A k \in 1..Len(configs) :
        AccessFailedAt(1, k) =>
            /\ \A c \in CallsOn(1, k) : c.probe = "access"
            /\ k \in 1..Len(results[1])
            /\ results[1][k].info = [space |-> None, backup |-> None]
            /\ ~results[1][k].success
            /\ Len(results[1][k].errors) = 1
            /\ results[1][k].errors[1][1] = "Directory not accessible: "

\* C2 witness: the first target failed accessibility, the run went on and
\* returned, and the second target was probed in full.
C2_Witness ==
    /\ pc[1] = "done"
    /\ Len(configs) = 2
    /\ AccessFailedAt(1, 1)
    /\ \E c \in CallsOn(1, 2) : c.probe = "fresh"

\* The position of target k's accessibility probe in the call log of run r.
AccessPos(r, k) ==
    CHOOSE p \in 1..Len(calls[r]) :
        calls[r][p].target = k /\ calls[r][p].probe = "access"

\* The error entries steps 2 and 3 append for what the two probes returned.
ExpectedErrors(space, fresh) ==
    (IF space.ok THEN <<>>
     ELSE << <<"Insufficient free space: ">> \o space.msg >>)
    \o
    (IF fresh.ok THEN <<>>
     ELSE << <<"Backup validation failed: ">> \o fresh.msg >>)

\* C3: for a target that passed accessibility, the space probe and then the
\* freshness probe both run, in that order, also when the space probe
\* fails; each failure appends its own error, and what the two probes
\* returned as space and backup information is in the result.
C3_BothProbesRunInOrder ==
    pc[1] = "done" =>
        \A k \in 1..Len(configs) :
            AccessPassedAt(1, k) =>
                LET p == AccessPos(1, k) IN
                /\ p + 2 <= Len(calls[1])
                /\ calls[1][p + 1].target = k
                /\ calls[1][p + 1].probe = "space"
                /\ calls[1][p + 2].target = k
                /\ calls[1][p + 2].probe = "fresh"
                /\ Cardinality(CallsOn(1, k)) = 3
                /\ k \in 1..Len(results[1])
                /\ LET space == check_free_space(configs[k].backup_dir,
                                                 calls[1][p + 1].ext)
                       fresh == check_backup_freshness(configs[k],
                                                       calls[1][p + 2].ext)
                   IN  /\ results[1][k].info.space = Some(space.info)
                       /\ results[1][k].info.backup = Some(fresh.info)
                       /\ results[1][k].errors = ExpectedErrors(space, fresh)

\* C3 witness: a target passed accessibility, its space probe failed, its
\* freshness probe ran after that and failed too, and the run returned.
C3_Witness ==
    /\ pc[1] = "done"
    /\ \E k \in 1..Len(configs) :
          /\ AccessPassedAt(1, k)
          /\ \E c \in CallsOn(1, k) : c.probe = "space" /\ c.ext = "low"
          /\ \E c \in CallsOn(1, k) : c.probe = "fresh" /\ c.ext = "small"
          /\ Len(results[1][k].errors) = 2

\* C4: run_all_checks returns one result per configured target, in
\* configuration order: the i-th result carries the name and the directory
\* of the i-th target.
C4_OneResultPerTargetInOrder ==
    pc[1] = "done" =>
        /\ Len(results[1]) = Len(configs)
        /\ \A i \in 1..Len(results[1]) :
              i <= Len(configs) =>
                  /\ results[1][i].name = configs[i].name
                  /\ results[1][i].backup_dir = configs[i].backup_dir

\* C4 witness: two targets of different names and directories, the first
\* of which failed accessibility, and the run returned.
C4_Witness ==
    /\ pc[1] = "done"
    /\ Len(configs) = 2
    /\ configs[1].name # configs[2].name
    /\ configs[1].backup_dir # configs[2].backup_dir
    /\ AccessFailedAt(1, 1)
    /\ Len(results[1]) = 2

\* C5: two invocations over the same target list whose probes met the same
\* on every target but one return the same result record for every other
\* target, and every target is probed in both, whatever failed before it.
C5_TargetIsolation ==
    /\ \A r \in Runs :
          pc[r] = "done" =>
              \A k \in 1..Len(configs) :
                  \E c \in CallsOn(r, k) : c.probe = "access"
    /\ (pc[1] = "done" /\ pc[2] = "done") =>
          \A k \in 1..Len(configs) :
              k # diff =>
                  /\ k \in 1..Len(results[1])
                  /\ k \in 1..Len(results[2])
                  /\ results[1][k] = results[2][k]

\* C5 witness: both invocations returned; on the first target one failed
\* accessibility and the other passed every probe, and a later target
\* was checked in both.
C5_Witness ==
    /\ pc[1] = "done"
    /\ pc[2] = "done"
    /\ diff = 1
    /\ Len(configs) >= 2
    /\ Len(results[1]) >= 2
    /\ Len(results[2]) >= 2
    /\ ~results[1][1].success
    /\ results[1][1].info.space = None
    /\ results[2][1].success
    /\ ~results[1][2].success

\* The error entry run_all_checks appends when the probe of call c raised.
RaisedError(c) ==
    LET cfg == configs[c.target] IN
    IF c.probe = "access"
    THEN <<"Directory not accessible: ">>
         \o check_directory_accessibility(cfg.backup_dir, c.ext).msg
    ELSE IF c.probe = "space"
    THEN <<"Insufficient free space: ">>
         \o check_free_space(cfg.backup_dir, c.ext).msg
    ELSE <<"Backup validation failed: ">>
         \o check_backup_freshness(cfg, c.ext).msg

\* C6: no exception leaves run_all_checks: a probe whose python_utils call
\* raised returns a failed outcome with a message naming the exception,
\* the message is among the errors of that target's result, and the
\* result list is returned.
C6_NeverRaises ==
    /\ pc[1] # "raised"
    /\ (pc[1] = "done" =>
          \A c \in Range(calls[1]) :
              c.ext = "raise" =>
                  /\ c.target \in 1..Len(results[1])
                  /\ ~results[1][c.target].success
                  /\ \E e \in Range(results[1][c.target].errors) :
                        /\ e = RaisedError(c)
                        /\ e[Len(e)] = ExcText)

\* C6 witness: the accessibility probe of one target and the space and the
\* freshness probe of another all met an exception, and the run returned
\* its two results.
C6_Witness ==
    /\ pc[1] = "done"
    /\ Len(results[1]) = 2
    /\ \E c \in Range(calls[1]) : c.probe = "access" /\ c.ext = "raise"
    /\ \E c \in Range(calls[1]) : c.probe = "space" /\ c.ext = "raise"
    /\ \E c \in Range(calls[1]) : c.probe = "fresh" /\ c.ext = "raise"

\* The results of run 1 that are not successful, in result order.
RECURSIVE FailedOf(_)
FailedOf(rs) ==
    IF Len(rs) = 0 THEN <<>>
    ELSE (IF rs[1].success THEN <<>> ELSE <<rs[1]>>) \o FailedOf(Tail(rs))

\* C7: the success count plus the failure count is the total count and the
\* critical failures are exactly the unsuccessful results, in the counts
\* run_all_checks logs and in those send_notifications derives from the
\* result list it is handed.
C7_CountsAddUp ==
    /\ (pc[1] = "done" =>
          /\ Len(summary[1]) = 1
          /\ summary[1][1].successful + summary[1][1].failed = Len(results[1])
          /\ summary[1][1].failed = Len(FailedOf(results[1])))
    /\ (notifyPc # "idle" =>
          /\ Len(routerSummary) = 1
          /\ routerSummary[1].total = Len(results[1])
          /\ routerSummary[1].successful + routerSummary[1].failed
                = routerSummary[1].total
          /\ routerSummary[1].failed = Len(FailedOf(results[1]))
          /\ routerSummary[1].critical
                = [i \in 1..Len(FailedOf(results[1])) |->
                      FailedOf(results[1])[i].name])

\* C8: every call of send_notifications attempts exactly one email send,
\* whatever the results are.
C8_OneEmailPerCall ==
    notifyPc # "idle" => Len(emailSent) = 1

\* C9: send_notifications attempts exactly one push alert when at least one
\* target failed and none when every target passed.
C9_PushIffFailure ==
    notifyPc # "idle" =>
        Len(pushSent) = (IF FailedOf(results[1]) # <<>> THEN 1 ELSE 0)

\* C10: send_notifications returns the logical AND of the outcomes of the
\* sends it attempted, a send that raised counting as failed.
C10_ReturnIsAndOfOutcomes ==
    notifyPc # "idle" =>
        notifyReturn = Some((\A i \in 1..Len(emailSent) : emailSent[i] = "ok")
                            /\ (\A i \in 1..Len(pushSent) : pushSent[i] = "ok"))

\* C17: a result record carries an error summary if and only if it is not
\* successful.
C17_SummaryIffFailed ==
    \A i \in 1..Len(results[1]) :
        (results[1][i].error # None) <=> ~results[1][i].success

\* C17 witness: the returned list holds a record that failed accessibility
\* and has a summary, and a passed record without one.
C17_Witness ==
    /\ pc[1] = "done"
    /\ \E i \in 1..Len(results[1]) :
          /\ AccessFailedAt(1, i)
          /\ ~results[1][i].success
          /\ results[1][i].error # None
    /\ \E i \in 1..Len(results[1]) :
          results[1][i].success /\ results[1][i].error = None

\* C19 as stated: the error summary of every unsuccessful record is the
\* '; '-join of the record's error list.
C19_SummaryIsJoinedErrors ==
    \A i \in 1..Len(results[1]) :
        ~results[1][i].success =>
            results[1][i].error = Some(Join(results[1][i].errors))

\* C19 amended: the error summary of an unsuccessful record whose target
\* passed accessibility is the '; '-join of its error list; that of a
\* record whose target failed accessibility is the probe's message, which
\* is the single entry of the error list without the entry's
\* "Directory not accessible: " prefix.
C19_SummaryByFailedProbe ==
    \A i \in 1..Len(results[1]) :
        ~results[1][i].success =>
            IF results[1][i].info.space = None
            THEN /\ Len(results[1][i].errors) = 1
                 /\ Len(results[1][i].error) = 1
                 /\ results[1][i].errors[1]
                       = <<"Directory not accessible: ">>
                         \o results[1][i].error[1]
            ELSE results[1][i].error = Some(Join(results[1][i].errors))

\* C19 witness: the returned list holds a record that failed accessibility
\* and a record with an error from the space and one from the freshness
\* probe, each with its summary.
C19_Witness ==
    /\ pc[1] = "done"
    /\ \E i \in 1..Len(results[1]) :
          /\ AccessFailedAt(1, i)
          /\ results[1][i].error # None
    /\ \E i \in 1..Len(results[1]) :
          /\ Len(results[1][i].errors) = 2
          /\ results[1][i].error # None

\* The invocations of a probe on target k in run r.
ProbeCount(r, k, probe) ==
    Cardinality({p \in 1..Len(calls[r]) :
                   calls[r][p].target = k /\ calls[r][p].probe = probe})

ErrorText(res) == IF res.error = None THEN <<"Unknown error">> ELSE res.error[1]

\* C11: the push alert's form follows the number of failed targets: with
\* one failure the title names the target and the message carries its
\* error; with two or more the title states the count and the message has
\* one target/error line per failed target, in result order; the summary
\* line's failure count is the number of failed targets.
C11_PushFormByFailureCount ==
    (notifyPc # "idle" /\ FailedOf(results[1]) # <<>>) =>
        /\ pushAlert # None
        /\ LET failed == FailedOf(results[1])
               alert == pushAlert[1]
           IN  /\ alert.failed_count = Len(failed)
               /\ IF Len(failed) = 1
                  THEN /\ alert.title = <<"Backup Alert: ", failed[1].name>>
                       /\ alert.message
                             = <<<<"CRITICAL: Backup '", failed[1].name,
                                   "' failed">>,
                                 ErrorText(failed[1])>>
                  ELSE /\ alert.title = <<"Multiple Backup Failures">>
                       /\ Len(alert.message) = Len(failed)
                       /\ \A i \in 1..Len(failed) :
                             alert.message[i]
                                = <<failed[i].name, ": ">>
                                  \o ErrorText(failed[i])

\* C18: the email body has one detail section per target in result order;
\* it has the failed-summary section if and only if a target failed, with
\* one entry per failed target in result order and none for a passed one.
C18_EmailBodySections ==
    notifyPc # "idle" =>
        /\ emailContent # None
        /\ LET failed == FailedOf(results[1])
               body == emailContent[1]
           IN  /\ Len(body.details) = Len(results[1])
               /\ \A i \in 1..Len(results[1]) :
                     body.details[i].name = results[1][i].name
               /\ (body.failed_summary # None) <=> (failed # <<>>)
               /\ failed # <<>> =>
                     /\ Len(body.failed_summary[1]) = Len(failed)
                     /\ \A i \in 1..Len(failed) :
                           body.failed_summary[1][i]
                              = <<failed[i].name, ": ">>
                                \o ErrorText(failed[i])

C13_FatalFailureAlertsAndExits ==
    (mainPc = "exited" /\ fatal # None) =>
        /\ crashAlerts = 1
        /\ exitCode = Some(1)

\* C14: whenever check_free_space returns a non-empty SpaceInfo, the flag
\* it returns equals (SpaceInfo.free_bytes >= minimum bytes), also when
\* the filesystem's free space changes while the probe is running.
C14_FlagAgreesWithSpaceInfo ==
    (spReturn # None /\ spReturn[1].space_info # None) =>
        (spReturn[1].has_sufficient_space
            <=> (spReturn[1].space_info[1].free_bytes
                    >= spReturn[1].space_info[1].min_required))

\* The positions in the listing of the direct files of the directory that
\* were modified within the day window.
Qualifying ==
    {i \in 1..Len(dirFiles) :
        ~dirFiles[i].nested /\ dirFiles[i].modified_time >= WindowStart}

\* The summed size of the entries at the positions of set S.
RECURSIVE SizeOf(_)
SizeOf(S) ==
    IF S = {} THEN 0
    ELSE LET i == CHOOSE j \in S : TRUE
         IN  dirFiles[i].size_bytes + SizeOf(S \ {i})

\* The BackupInfo of no qualifying file and the message naming the window.
ZeroFilesReturn(ret) ==
    /\ ret.backup_info # None
    /\ ret.backup_info[1].file_count = 0
    /\ ret.backup_info[1].total_size_bytes = 0
    /\ ret.backup_info[1].oldest_file = None
    /\ ret.backup_info[1].newest_file = None
    /\ ret.message = <<"No files found modified within ", FreshTarget.days,
                       " days in ", FreshTarget.backup_dir>>

\* C15 as stated: check_backup_freshness returns valid if and only if at
\* least one direct file of the directory was modified within the window
\* and the summed size of all such files is at least the minimum size;
\* with no such file it returns invalid with zero count and size, null
\* oldest and newest and a message naming the window.
C15_ValidIffFreshAndLargeEnough ==
    frReturn # None =>
        /\ frReturn[1].is_valid
              <=> /\ Qualifying # {}
                  /\ minSizeBytes # None
                  /\ SizeOf(Qualifying) >= minSizeBytes[1]
        /\ Qualifying = {} =>
              (~frReturn[1].is_valid /\ ZeroFilesReturn(frReturn[1]))

\* C15 amended: when no call made inside the probe raises, it returns
\* valid if and only if at least one direct file was modified within the
\* window and the summed size of all such files is at least the minimum
\* size, and with no such file it returns invalid with zero count and
\* size, null oldest and newest and a message naming the window; when a
\* call made inside the probe raises, it returns invalid with an empty
\* BackupInfo and a message carrying the exception, whatever the
\* directory holds.
C15_ValidIffListedFreshAndLargeEnough ==
    frReturn # None =>
        IF FreshRaised
        THEN /\ ~frReturn[1].is_valid
             /\ frReturn[1].backup_info = None
             /\ frReturn[1].message
                   = <<"Error checking backup freshness for ",
                       FreshTarget.backup_dir, ": ", ExcText>>
        ELSE /\ frReturn[1].is_valid
                   <=> /\ Qualifying # {}
                       /\ minSizeBytes # None
                       /\ SizeOf(Qualifying) >= minSizeBytes[1]
             /\ Qualifying = {} =>
                   (~frReturn[1].is_valid /\ ZeroFilesReturn(frReturn[1]))

\* C15 witness: the probe returned valid for files whose summed size is
\* exactly the minimum.
C15_Witness ==
    /\ frReturn # None
    /\ frReturn[1].is_valid
    /\ minSizeBytes = Some(3)
    /\ SizeOf(Qualifying) = 3

\* C16: in the BackupInfo, file_count and total_size_bytes cover all
\* qualifying files; the retained list holds min(5, file_count) entries,
\* the most recently modified ones in descending order of modification
\* time; newest is the first and oldest the last of all qualifying files,
\* also when more than 5 qualify.
C16_BackupInfoCoversAllFiles ==
    (frReturn # None /\ frReturn[1].backup_info # None) =>
        LET info == frReturn[1].backup_info[1]
            Time(i) == dirFiles[i].modified_time
        IN  /\ info.file_count = Cardinality(Qualifying)
            /\ info.total_size_bytes = SizeOf(Qualifying)
            /\ info.files = None => info.file_count = 0
            /\ info.file_count > 0 =>
                  /\ info.files # None
                  /\ info.newest_file # None
                  /\ info.oldest_file # None
            /\ (info.file_count > 0 /\ info.files # None
                /\ info.newest_file # None /\ info.oldest_file # None) =>
                  LET files == info.files[1]
                      kept == {files[k].path : k \in 1..Len(files)}
                  IN  /\ Len(files) = (IF info.file_count < 5
                                       THEN info.file_count ELSE 5)
                      /\ Cardinality(kept) = Len(files)
                      /\ kept \subseteq Qualifying
                      /\ \A k \in 1..Len(files) :
                            /\ files[k].modified_time = Time(files[k].path)
                            /\ files[k].size_bytes
                                  = dirFiles[files[k].path].size_bytes
                      /\ \A k \in 1..Len(files) : \A l \in 1..Len(files) :
                            k < l => files[k].modified_time
                                        >= files[l].modified_time
                      /\ \A i \in kept : \A j \in Qualifying \ kept :
                            Time(i) >= Time(j)
                      /\ info.newest_file[1] = files[1]
                      /\ \A j \in Qualifying :
                            Time(j) <= info.newest_file[1].modified_time
                      /\ info.oldest_file[1].path \in Qualifying
                      /\ \A j \in Qualifying :
                            Time(j) >= info.oldest_file[1].modified_time
                      /\ info.file_count <= 5 =>
                            info.oldest_file[1] = files[Len(files)]

\* C16 witness: the probe returned a BackupInfo for more than 5 qualifying
\* files of different modification times, listed oldest first.
C16_Witness ==
    /\ frReturn # None
    /\ frReturn[1].backup_info # None
    /\ frReturn[1].backup_info[1].file_count > 5
    /\ \E i \in Qualifying : \E j \in Qualifying :
          /\ i < j
          /\ dirFiles[i].modified_time < dirFiles[j].modified_time

====
